---- MODULE Spec2Model ----
(***************************************************************************)
(* Interview simulator: the perception model (engineer.py), the interview  *)
(* step (interview.py), the interview pipeline with its elimination        *)
(* policies (interview_pipeline.py), the compensation curve                *)
(* (compensation.py) and the candidate search (candidate_selection.py).    *)
(*                                                                         *)
(* Number representation.  Python floats are modelled as exact rationals   *)
(* [n |-> numerator, d |-> denominator > 0]; comparisons cross-multiply.   *)
(* Lengths of time are integers in hundredths of an hour (0.25 h = 25).    *)
(* An adjustment factor is an integer number of percent (-0.1 = -10).      *)
(* A draw of random.gauss(0, sigma) is z * sigma for a standard normal     *)
(* draw z, and z is chosen nondeterministically from ZSamples.             *)
(***************************************************************************)
EXTENDS Integers, Sequences, FiniteSets, TLC

\* ------------------------------------------------------------- settings
MIN_COMPENSATION == 95000
MAX_COMPENSATION == 600000
P25_COMPENSATION == 192000
MEDIAN_COMPENSATION == 254000
P75_COMPENSATION == 348000
P90_COMPENSATION == 455000
\* hundredths of an hour
MIN_INTERVIEW_LENGTH == 25
MAX_INTERVIEW_LENGTH == 200
DEFAULT_SELF_ASSESSMENT_TIME == 100

\* settings.MAX_CANDIDATES_TO_CONSIDER is read from the environment (default
\* 1000); the model draws it from 0..MaxDraws.
MaxDraws == 2

\* the generator's loop is unbounded; the model counts up to MaxDiscarded
MaxDiscarded == 2

\* ------------------------------------------------------------ rationals
\* The helpers are functions, so that an argument is evaluated once.
Rat(n, d) == [n |-> n, d |-> d]
RInt(i) == Rat(i, 1)
Rats == [n : Int, d : Nat]
RLt[a \in Rats, b \in Rats] == a.n * b.d < b.n * a.d
RLe[a \in Rats, b \in Rats] == a.n * b.d <= b.n * a.d
RAdd[a \in Rats, b \in Rats] == Rat(a.n * b.d + b.n * a.d, a.d * b.d)

\* Euclid's algorithm
GCD[a \in Nat, b \in Nat] == IF b = 0 THEN a ELSE GCD[b, a % b]

Abs(i) == IF i < 0 THEN -i ELSE i
\* the same rational in lowest terms (keeps the products below within 32 bits)
RNorm[a \in Rats] == LET g == GCD[Abs(a.n), a.d] IN Rat(a.n \div g, a.d \div g)
RMul[a \in Rats, b \in Rats] == RNorm[Rat(a.n * b.n, a.d * b.d)]
RDivInt[a \in Rats, k \in Nat] == Rat(a.n, a.d * k)
RMax[a \in Rats, b \in Rats] == IF RLt[a, b] THEN b ELSE a
RMin[a \in Rats, b \in Rats] == IF RLt[b, a] THEN b ELSE a
\* Python int(x): truncation toward zero
PyInt[a \in Rats] == IF a.n >= 0 THEN a.n \div a.d ELSE -((-a.n) \div a.d)

Max(a, b) == IF a < b THEN b ELSE a
Min(a, b) == IF b < a THEN b ELSE a

RECURSIVE SeqSum(_)
SeqSum(s) == IF s = <<>> THEN 0 ELSE s[1] + SeqSum(Tail(s))

RECURSIVE SeqSumSq(_)
SeqSumSq(s) == IF s = <<>> THEN 0 ELSE s[1] * s[1] + SeqSumSq(Tail(s))

RECURSIVE SeqMin(_)
SeqMin(s) == IF Len(s) = 1 THEN s[1] ELSE Min(s[1], SeqMin(Tail(s)))

RECURSIVE SeqMax(_)
SeqMax(s) == IF Len(s) = 1 THEN s[1] ELSE Max(s[1], SeqMax(Tail(s)))

RECURSIVE Insert(_, _)
Insert(x, s) ==
    IF s = <<>> THEN <<x>>
    ELSE IF x <= s[1] THEN <<x>> \o s
    ELSE <<s[1]>> \o Insert(x, Tail(s))

RECURSIVE Sorted(_)
Sorted(s) == IF s = <<>> THEN <<>> ELSE Insert(s[1], Sorted(Tail(s)))

\* statistics.mean, statistics.median, statistics.stdev squared
mean(s) == Rat(SeqSum(s), Len(s))
median(s) ==
    LET t == Sorted(s)
        k == Len(s)
    IN  IF k % 2 = 1 THEN RInt(t[(k + 1) \div 2])
        ELSE Rat(t[k \div 2] + t[k \div 2 + 1], 2)
variance(s) ==
    LET k == Len(s)
    IN  Rat(k * SeqSumSq(s) - SeqSum(s) * SeqSum(s), k * (k - 1))

\* ----------------------------------------------------------- engineer.py
\* Engineer.estimate_skill_level; z is the standard normal draw behind gauss.
\* estimated_score = skill + z*std/length + bias/length, length in hours.
estimate_skill_level_unclamped(skill_score, error_std, error_bias, interview_length, z) ==
    LET len == Max(MIN_INTERVIEW_LENGTH, Min(MAX_INTERVIEW_LENGTH, interview_length))
        estimated_score ==
            Rat(skill_score * len + 100 * (z * error_std + error_bias), len)
    IN  PyInt[estimated_score]
estimate_skill_level(skill_score, error_std, error_bias, interview_length, z) ==
    LET len == Max(MIN_INTERVIEW_LENGTH, Min(MAX_INTERVIEW_LENGTH, interview_length))
        estimated_score ==
            Rat(skill_score * len + 100 * (z * error_std + error_bias), len)
    IN  Max(1, Min(100, PyInt[estimated_score]))

EngineerParams(skill, own_std, own_bias, eval_std, eval_bias) ==
    [skill_score_true |-> skill, own_error_std |-> own_std, own_bias |-> own_bias,
     eval_error_std |-> eval_std, eval_bias |-> eval_bias]

\* Engineer.__init__: the perceived skill is estimated once at construction.
Engineer(params, z) ==
    [params |-> params,
     skill_score_perceived |->
        estimate_skill_level(params.skill_score_true, params.own_error_std,
                             params.own_bias, DEFAULT_SELF_ASSESSMENT_TIME, z)]

estimate_other_skill(self, other, interview_length, z) ==
    estimate_skill_level(other.params.skill_score_true, self.params.eval_error_std,
                         self.params.eval_bias, interview_length, z)

\* ------------------------------------------------------- compensation.py
\* x, x1, x2 and the result are rationals; y1, y2 integers
linear_interpolation(x, x1, x2, y1, y2) ==
    RNorm[Rat(y1 * (x2 - x1) * x.d + (y2 - y1) * (x.n - x1 * x.d), (x2 - x1) * x.d)]

map_skill_to_compensation(skill_score_in) ==
    LET skill_score == RMax[RInt(1), RMin[RInt(100), skill_score_in]]
    IN  IF RLe[skill_score, RInt(25)] THEN
            linear_interpolation(skill_score, 1, 25, MIN_COMPENSATION, P25_COMPENSATION)
        ELSE IF RLe[skill_score, RInt(50)] THEN
            linear_interpolation(skill_score, 25, 50, P25_COMPENSATION, MEDIAN_COMPENSATION)
        ELSE IF RLe[skill_score, RInt(75)] THEN
            linear_interpolation(skill_score, 50, 75, MEDIAN_COMPENSATION, P75_COMPENSATION)
        ELSE IF RLe[skill_score, RInt(90)] THEN
            linear_interpolation(skill_score, 75, 90, P75_COMPENSATION, P90_COMPENSATION)
        ELSE
            \* P90 + (MAX - P90) * pow(percentage, 2), percentage = (skill_score - 90) / 10
            LET percentage == RNorm[Rat(skill_score.n - 90 * skill_score.d,
                                        10 * skill_score.d)]
            IN  RAdd[RInt(P90_COMPENSATION),
                     RMul[RInt(MAX_COMPENSATION - P90_COMPENSATION),
                          RMul[percentage, percentage]]]

\* adjustment in percent
make_offer(final_score_in, adjustment_in) ==
    LET final_score == RMax[RInt(1), RMin[RInt(100), final_score_in]]
        adjustment == Max(-50, Min(500, adjustment_in))
        true_compensation == map_skill_to_compensation(final_score)
        offer == RMul[true_compensation, RNorm[Rat(100 + adjustment, 100)]]
    IN  RMax[RInt(0), offer]

\* ---------------------------------------------------------- interview.py
\* what a construction that fails its field validation raises
ValidationError == [raised |-> "ValidationError"]
is_raised(step) == "raised" \in DOMAIN step

\* duration: Field(..., ge=MIN_INTERVIEW_LENGTH, le=MAX_INTERVIEW_LENGTH)
duration_field_unconstrained(duration) == TRUE
duration_field(duration) ==
    MIN_INTERVIEW_LENGTH <= duration /\ duration <= MAX_INTERVIEW_LENGTH

\* InterviewStep(duration=..., interviewers=...): the model validates the
\* duration and raises; the list of interviewers is not constrained
InterviewStep(duration, interviewers) ==
    IF duration_field(duration)
    THEN [duration |-> duration, interviewers |-> interviewers]
    ELSE ValidationError

create_interview_step(duration, interviewers) == InterviewStep(duration, interviewers)

\* InterviewStep.conduct, for a non-empty list of interviewers; zs[i] is the
\* normal draw of interviewer i.  "std" is kept squared (the sample variance).
conduct(step, candidate, zs) ==
    LET step_scores ==
            [i \in 1..Len(step.interviewers) |->
                estimate_other_skill(step.interviewers[i], candidate, step.duration, zs[i])]
    IN  [min |-> SeqMin(step_scores),
         max |-> SeqMax(step_scores),
         avg |-> mean(step_scores),
         median |-> median(step_scores),
         std_squared |-> IF Len(step_scores) > 1 THEN variance(step_scores) ELSE RInt(0)]

\* ------------------------------------------------- interview_pipeline.py
EliminationTypes == {"immediate", "aggregate"}

RECURSIVE SumAvg(_)
SumAvg(scores) ==
    IF scores = <<>> THEN RInt(0) ELSE RAdd[scores[1].avg, SumAvg(Tail(scores))]

immediate_elimination_le(scores, target) ==
    RLe[scores[Len(scores)].avg, RInt(target)]
\* lambda scores, target: scores[-1]["avg"] < target
immediate_elimination(scores, target) == RLt[scores[Len(scores)].avg, RInt(target)]

aggregate_elimination_le(scores, target) ==
    RLe[RDivInt[SumAvg(scores), Len(scores)], RInt(target)]
\* lambda scores, target: sum(s["avg"] for s in scores) / len(scores) < target
aggregate_elimination(scores, target) ==
    RLt[RDivInt[SumAvg(scores), Len(scores)], RInt(target)]

valid_elimination_type_any(elimination_type) == TRUE
\* create_elimination_function raises ValueError for any other name
valid_elimination_type(elimination_type) == elimination_type \in EliminationTypes

elimination_function(elimination_type, scores, target) ==
    IF elimination_type = "immediate" THEN immediate_elimination(scores, target)
    ELSE aggregate_elimination(scores, target)

add_duration_overwrite(time, duration) == duration
\* total_time += step.duration
add_duration(time, duration) == time + duration

\* InterviewPipeline.__init__ / create_interview_pipeline: stores the steps
create_interview_pipeline(steps) == steps

\* --------------------------------------------------- candidate_selection.py
within_tolerance_wide(perceived, estimated_target) ==
    /\ estimated_target * 50 <= perceived * 100
    /\ perceived * 100 <= estimated_target * 150
\* lower_bound <= perceived <= upper_bound, bounds = estimate * (1 -/+ 0.15)
within_tolerance(perceived, estimated_target) ==
    /\ estimated_target * 85 <= perceived * 100
    /\ perceived * 100 <= estimated_target * 115

should_yield_swapped(cand, estimated_target) ==
    /\ estimated_target * 115 <= cand.skill_score_perceived * 100
    /\ cand.skill_score_perceived * 100 <= estimated_target * 85
\* the generator's test before yield
should_yield(cand, estimated_target) ==
    within_tolerance(cand.skill_score_perceived, estimated_target)

range_has_next_inclusive(i, n) == i <= n
range_has_next(i, n) == i < n

compute_final_score(scs) == IF scs # <<>> THEN scs[Len(scs)].avg ELSE RInt(0)

compute_perceived_compensation_self(cand, fscore) ==
    make_offer(RInt(cand.skill_score_perceived), 0)
compute_perceived_compensation(cand, fscore) == make_offer(RInt(PyInt[fscore]), 0)

accept_test_offer_only(fscore, perceived_compensation, target, target_comp) ==
    RLe[perceived_compensation, target_comp]
accept_test(fscore, perceived_compensation, target, target_comp) ==
    /\ RLe[RInt(target), fscore]
    /\ RLe[perceived_compensation, target_comp]

accepted_result_uncounted(cand, time, fscore, screened) ==
    [candidate |-> <<cand>>, total_time |-> time, final_score |-> fscore,
     total_candidates_screened |-> screened - 1]
accepted_result(cand, time, fscore, screened) ==
    [candidate |-> <<cand>>, total_time |-> time, final_score |-> fscore,
     total_candidates_screened |-> screened]

exhausted_result_zero(screened) ==
    [candidate |-> <<>>, total_time |-> 0, final_score |-> RInt(0),
     total_candidates_screened |-> 0]
exhausted_result(screened) ==
    [candidate |-> <<>>, total_time |-> 0, final_score |-> RInt(0),
     total_candidates_screened |-> screened]

\* ------------------------------------------------------------ input sets
ZSamples == {-2, 0, 1}
ZFor(std) == IF std = 0 THEN {0} ELSE ZSamples
ZSeqs(interviewers) ==
    {zs \in [1..Len(interviewers) -> ZSamples] :
        \A i \in 1..Len(interviewers) : zs[i] \in ZFor(interviewers[i].params.eval_error_std)}

\* evaluators of the pipelines
EA == Engineer(EngineerParams(80, 10, 0, 5, 0), 0)
EB == Engineer(EngineerParams(75, 10, 0, 0, 2), 0)

\* The population EngineerParams() draws from
Population ==
    {EngineerParams(85, 4, 0, 0, 0),
     EngineerParams(40, 10, 5, 10, -5),
     EngineerParams(85, 0, -20, 0, 0),
     EngineerParams(3, 0, 57, 0, 0)}

Pipelines ==
    {<<>>,
     <<create_interview_step(50, <<EA>>), create_interview_step(100, <<EA>>)>>,
     <<create_interview_step(25, <<EB>>), create_interview_step(50, <<EA>>),
       create_interview_step(150, <<EA, EB>>)>>,
     <<create_interview_step(50, <<EA>>), create_interview_step(100, <<>>)>>,
     <<create_interview_step(50, <<EA>>), create_interview_step(10, <<EA>>)>>,
     <<create_interview_step(300, <<EB>>)>>}

TargetScores == {60, 85}
TargetCompensations == {make_offer(RInt(85), 0), make_offer(RInt(60), 0)}
EliminationNames == {"immediate", "aggregate", "cumulative"}

\* ------------------------------------------------------------------ state
VARIABLES
    pc,                        \* position of the program
    max_candidates,            \* settings.MAX_CANDIDATES_TO_CONSIDER
    pipeline,                  \* InterviewPipeline.steps
    target_score, target_compensation, elimination_type,
    draw,                      \* iterations of the search loop begun
    total_candidates_screened,
    candidate,                 \* <<>> or <<engineer>>
    estimated_target_score,
    step_idx,                  \* steps of the current pipeline run begun
    total_time, scores,
    exit,                      \* which return of __call__ was taken
    final_score,
    result,
    error,
    tested,                    \* outcome of the accept test per screened candidate
    discarded                  \* entities the generator dropped since its last yield

vars == <<pc, max_candidates, pipeline, target_score, target_compensation,
          elimination_type, draw, total_candidates_screened, candidate,
          estimated_target_score, step_idx, total_time, scores, exit, final_score,
          result, error, tested, discarded>>

config == <<max_candidates, pipeline, target_score, target_compensation, elimination_type>>

Init ==
    /\ pc = "construct"
    /\ max_candidates \in 0..MaxDraws
    /\ pipeline = <<>>
    /\ target_score = 0
    /\ target_compensation = RInt(0)
    /\ elimination_type = ""
    /\ draw = 0
    /\ total_candidates_screened = 0
    /\ candidate = <<>>
    /\ estimated_target_score = 0
    /\ step_idx = 0
    /\ total_time = 0
    /\ scores = <<>>
    /\ exit = ""
    /\ final_score = RInt(0)
    /\ result = exhausted_result(0)
    /\ error = ""
    /\ tested = <<>>
    /\ discarded = 0

\* create_interview_pipeline(*steps): always succeeds
CreateInterviewPipeline ==
    /\ pc = "construct"
    /\ \E steps \in Pipelines :
          IF \E j \in 1..Len(steps) : is_raised(steps[j])
          THEN /\ error' = "ValidationError"
               /\ pc' = "raised"
               /\ UNCHANGED pipeline
          ELSE /\ pipeline' = create_interview_pipeline(steps)
               /\ pc' = "ready"
               /\ UNCHANGED error
    /\ UNCHANGED <<max_candidates, target_score, target_compensation, elimination_type,
                   draw, total_candidates_screened, candidate, estimated_target_score,
                   step_idx, total_time, scores, exit, final_score, result, tested,
                   discarded>>

\* find_suitable_candidate is called: candidates = generate_candidates(...),
\* total_candidates_screened = 0
FindSuitableCandidate ==
    /\ pc = "ready"
    /\ target_score' \in TargetScores
    /\ target_compensation' \in TargetCompensations
    /\ elimination_type' \in EliminationNames
    /\ total_candidates_screened' = 0
    /\ draw' = 0
    /\ discarded' = 0
    /\ pc' = "search"
    /\ UNCHANGED <<max_candidates, pipeline, candidate, estimated_target_score,
                   step_idx, total_time, scores, exit, final_score, result, error, tested>>

\* for _ in range(MAX_CANDIDATES_TO_CONSIDER): candidate = next(candidates)
SearchNext ==
    /\ pc = "search"
    /\ range_has_next(draw, max_candidates)
    /\ draw' = draw + 1
    /\ pc' = "generate"
    /\ UNCHANGED <<config, discarded, total_candidates_screened, candidate, estimated_target_score,
                   step_idx, total_time, scores, exit, final_score, result, error, tested>>

\* return None, 0, 0, total_candidates_screened
SearchExhausted ==
    /\ pc = "search"
    /\ ~range_has_next(draw, max_candidates)
    /\ result' = exhausted_result(total_candidates_screened)
    /\ pc' = "exhausted"
    /\ UNCHANGED <<config, discarded, draw, total_candidates_screened, candidate,
                   estimated_target_score, step_idx, total_time, scores, exit,
                   final_score, error, tested>>

\* One iteration of the generator's while True; on yield the search counts the
\* candidate (total_candidates_screened += 1).  An entity failing the test is
\* dropped and the loop goes round; discarded counts these up to MaxDiscarded,
\* the value MaxDiscarded standing for "MaxDiscarded or more".
GenerateCandidate ==
    /\ pc = "generate"
    /\ \E params \in Population :
       \E z_own \in ZFor(params.own_error_std) :
       \E z_eval \in ZFor(params.eval_error_std) :
       \E cand \in {Engineer(params, z_own)} :
       \E est \in {estimate_skill_level(target_score, params.eval_error_std,
                                        params.eval_bias,
                                        DEFAULT_SELF_ASSESSMENT_TIME, z_eval)} :
              /\ candidate' = <<cand>>
              /\ estimated_target_score' = est
              /\ IF should_yield(cand, est)
                 THEN /\ pc' = "pipeline_call"
                      /\ total_candidates_screened' = total_candidates_screened + 1
                      /\ discarded' = 0
                 ELSE /\ pc' = "generate"
                      /\ discarded' = Min(discarded + 1, MaxDiscarded)
                      /\ UNCHANGED total_candidates_screened
    /\ UNCHANGED <<config, draw, step_idx, total_time, scores, exit, final_score,
                   result, error, tested>>

\* InterviewPipeline.__call__, before the loop
PipelineCall ==
    /\ pc = "pipeline_call"
    /\ IF valid_elimination_type(elimination_type)
       THEN /\ total_time' = 0
            /\ scores' = <<>>
            /\ step_idx' = 0
            /\ exit' = ""
            /\ pc' = "pipeline"
            /\ UNCHANGED error
       ELSE /\ error' = "ValueError"
            /\ pc' = "raised"
            /\ UNCHANGED <<total_time, scores, step_idx, exit>>
    /\ UNCHANGED <<config, discarded, draw, total_candidates_screened, candidate,
                   estimated_target_score, final_score, result, tested>>

\* One iteration of "for step in self.steps"
PipelineStep ==
    /\ pc = "pipeline"
    /\ step_idx < Len(pipeline)
    /\ LET step == pipeline[step_idx + 1]
       IN  /\ step_idx' = step_idx + 1
           /\ total_time' = add_duration(total_time, step.duration)
           /\ IF step.interviewers = <<>>
              THEN \* min() of an empty list
                   /\ error' = "ValueError"
                   /\ pc' = "raised"
                   /\ UNCHANGED <<scores, exit>>
              ELSE \E zs \in ZSeqs(step.interviewers) :
                   \E current_score \in {conduct(step, candidate[1], zs)} :
                   \E appended \in {Append(scores, current_score)} :
                       /\ scores' = appended
                       /\ UNCHANGED error
                       /\ IF elimination_function(elimination_type, appended, target_score)
                          THEN /\ exit' = "eliminated"
                               /\ pc' = "decide"
                          ELSE /\ UNCHANGED exit
                               /\ pc' = "pipeline"
    /\ UNCHANGED <<config, discarded, draw, total_candidates_screened, candidate,
                   estimated_target_score, final_score, result, tested>>

\* the return after the loop
PipelineReturn ==
    /\ pc = "pipeline"
    /\ step_idx >= Len(pipeline)
    /\ exit' = "completed"
    /\ pc' = "decide"
    /\ UNCHANGED <<config, discarded, draw, total_candidates_screened, candidate,
                   estimated_target_score, step_idx, total_time, scores, final_score,
                   result, error, tested>>

\* final score, perceived compensation and the accept test
Decide ==
    /\ pc = "decide"
    /\ \E fscore \in {compute_final_score(scores)} :
       \E perceived_compensation \in
               {compute_perceived_compensation(candidate[1], fscore)} :
       \E accept \in {accept_test(fscore, perceived_compensation, target_score,
                                  target_compensation)} :
           /\ final_score' = fscore
           /\ tested' = Append(tested, accept)
           /\ IF accept
              THEN /\ result' = accepted_result(candidate[1], total_time, fscore,
                                                total_candidates_screened)
                   /\ pc' = "accepted"
              ELSE /\ UNCHANGED result
                   /\ pc' = "search"
    /\ UNCHANGED <<config, discarded, draw, total_candidates_screened, candidate,
                   estimated_target_score, step_idx, total_time, scores, exit, error>>

Next ==
    \/ CreateInterviewPipeline
    \/ FindSuitableCandidate
    \/ SearchNext
    \/ SearchExhausted
    \/ GenerateCandidate
    \/ PipelineCall
    \/ PipelineStep
    \/ PipelineReturn
    \/ Decide

Spec == Init /\ [][Next]_vars

\* The program is sequential and keeps running while it has a step to take; the
\* outcome of a random draw is not a matter of scheduling.
LiveSpec == Spec /\ WF_vars(Next)

\* ----------------------------------------------------------------- claims
InPipelineRun == pc \in {"pipeline", "decide"}
PipelineReturned == pc = "decide"
Returned == pc \in {"accepted", "exhausted"}

RECURSIVE DurationOfFirst(_)
DurationOfFirst(k) ==
    IF k = 0 THEN 0 ELSE pipeline[k].duration + DurationOfFirst(k - 1)

PossibleResults(step) ==
    {conduct(step, candidate[1], zs) : zs \in ZSeqs(step.interviewers)}

Mean(j) == scores[j].avg
BelowTarget(j) == Mean(j).n < target_score * Mean(j).d

\* C1: a pipeline run that has conducted k steps holds, and returns, an elapsed
\* time equal to the sum of the durations of the first k steps and exactly k step
\* results, result j being a result of step j; a completed run conducted every
\* step, and nothing of the steps after the eliminating one is counted.
C1_ElapsedAndResultsOfConductedSteps ==
    InPipelineRun =>
        /\ Len(scores) = step_idx
        /\ Len(scores) <= Len(pipeline)
        /\ total_time = DurationOfFirst(Len(scores))
        /\ \A j \in 1..Len(scores) : scores[j] \in PossibleResults(pipeline[j])
        /\ (PipelineReturned /\ exit = "completed") => Len(scores) = Len(pipeline)
        /\ (PipelineReturned /\ exit = "eliminated") => Len(scores) >= 1

C1_Witness ==
    /\ PipelineReturned
    /\ exit = "eliminated"
    /\ Len(scores) = 2
    /\ Len(pipeline) = 3
    /\ total_time = 75

\* C2: under "immediate" the run stops after step i exactly when the mean of
\* step i is strictly below the target; no step before the last conducted one had
\* a mean below the target, and a mean equal to the target does not eliminate.
C2_ImmediateStopsOnLastMeanBelowTarget ==
    (InPipelineRun /\ elimination_type = "immediate") =>
        /\ \A j \in 1..(Len(scores) - 1) : ~BelowTarget(j)
        /\ (pc = "pipeline" /\ scores # <<>>) => ~BelowTarget(Len(scores))
        /\ PipelineReturned =>
              ((exit = "eliminated") <=> (scores # <<>> /\ BelowTarget(Len(scores))))
        /\ (PipelineReturned /\ exit = "completed") => Len(scores) = Len(pipeline)

C2_Witness ==
    /\ elimination_type = "immediate"
    /\ PipelineReturned
    /\ exit = "eliminated"
    /\ Len(scores) = 2
    /\ Len(pipeline) = 3
    /\ BelowTarget(2)

\* the sum of the means of steps 1..k, as a rational
RECURSIVE SumOfMeans(_)
SumOfMeans(k) == IF k = 0 THEN RInt(0) ELSE RAdd[Mean(k), SumOfMeans(k - 1)]
\* average of the means of steps 1..k strictly below / equal to the target
RunningAverageBelowTarget(k) == SumOfMeans(k).n < target_score * k * SumOfMeans(k).d
RunningAverageAtTarget(k) == SumOfMeans(k).n = target_score * k * SumOfMeans(k).d

ExampleScores == <<[avg |-> RInt(80)], [avg |-> RInt(80)], [avg |-> RInt(20)]>>

\* C3: under "aggregate" the run stops after step i exactly when the average of
\* the means of steps 1..i is strictly below the target (and no shorter prefix
\* was); an average equal to the target does not eliminate: means 80, 80, 20 with
\* target 60 pass all three steps, where "immediate" eliminates at the third.
C3_AggregateStopsOnRunningAverageBelowTarget ==
    /\ (InPipelineRun /\ elimination_type = "aggregate") =>
          /\ \A k \in 1..(Len(scores) - 1) : ~RunningAverageBelowTarget(k)
          /\ (pc = "pipeline" /\ scores # <<>>) => ~RunningAverageBelowTarget(Len(scores))
          /\ PipelineReturned =>
                ((exit = "eliminated")
                    <=> (scores # <<>> /\ RunningAverageBelowTarget(Len(scores))))
          /\ (PipelineReturned /\ exit = "completed") => Len(scores) = Len(pipeline)
    /\ \A k \in 1..3 :
          ~elimination_function("aggregate", SubSeq(ExampleScores, 1, k), 60)
    /\ \A k \in 1..2 :
          ~elimination_function("immediate", SubSeq(ExampleScores, 1, k), 60)
    /\ elimination_function("immediate", ExampleScores, 60)

C3_Witness ==
    /\ elimination_type = "aggregate"
    /\ PipelineReturned
    /\ exit = "completed"
    /\ Len(scores) >= 2
    /\ RunningAverageAtTarget(Len(scores))
    /\ BelowTarget(Len(scores))

ScoreAtLeastTarget(fscore) == target_score * fscore.d <= fscore.n
OfferWithin(offer) == offer.n * target_compensation.d <= target_compensation.n * offer.d
LastStepMean == IF scores = <<>> THEN RInt(0) ELSE Mean(Len(scores))
\* a candidate has gone through the accept test since the last draw
JustTested == pc \in {"search", "accepted", "exhausted"} /\ tested # <<>>

\* C4 as claimed: accepted iff finalScore >= targetScore and
\* makeOffer(finalScore, 0) <= targetCompensation, the offer taken of the mean itself.
C4_AcceptIffScoreAndOfferOfMean ==
    JustTested =>
        /\ final_score = LastStepMean
        /\ (pc = "accepted") <=>
              (ScoreAtLeastTarget(final_score) /\ OfferWithin(make_offer(final_score, 0)))

\* C4 amended: accepted iff finalScore >= targetScore and the offer for the final
\* score truncated to an integer is <= targetCompensation; the final score is the
\* mean of the last recorded step, and nothing else of the candidate enters.
C4_AcceptIffScoreAndOfferOfTruncatedMean ==
    JustTested =>
        /\ final_score = LastStepMean
        /\ (pc = "accepted") <=>
              (/\ ScoreAtLeastTarget(final_score)
               /\ OfferWithin(make_offer(RInt(final_score.n \div final_score.d), 0)))

C4_Witness ==
    /\ pc = "accepted"
    /\ final_score.n % final_score.d # 0
    /\ candidate[1].skill_score_perceived # final_score.n \div final_score.d

\* C5: the search returns the first candidate in draw order that passes the test:
\* every earlier one failed, nothing happens after the acceptance, the count is
\* the position of the accepted candidate, and the time and final score returned
\* are those of that candidate's own pipeline run.
C5_FirstPassingCandidateReturned ==
    /\ \A j \in 1..(Len(tested) - 1) : ~tested[j]
    /\ pc = "accepted" =>
          /\ tested[Len(tested)]
          /\ Len(tested) = draw
          /\ total_candidates_screened = draw
          /\ result.total_candidates_screened = draw
          /\ result.candidate = candidate
          /\ result.total_time = DurationOfFirst(Len(scores))
          /\ result.final_score = LastStepMean
          /\ ~ENABLED Next

C5_Witness ==
    /\ pc = "accepted"
    /\ result.total_candidates_screened = 2
    /\ Len(scores) >= 2

\* C6: the number of candidates screened never exceeds maxDraws; the count
\* returned is in 1..maxDraws on acceptance and at most maxDraws on exhaustion.
C6_ScreenedAtMostMaxDraws ==
    /\ total_candidates_screened <= max_candidates
    /\ Len(tested) <= max_candidates
    /\ pc = "accepted" => result.total_candidates_screened \in 1..max_candidates
    /\ pc = "exhausted" => result.total_candidates_screened \in 0..max_candidates

\* no final score reaching target 85 has an offer within the offer for 60
C6_Witness ==
    /\ pc = "exhausted"
    /\ target_score = 85
    /\ target_compensation = make_offer(RInt(60), 0)
    /\ max_candidates = 2
    /\ total_candidates_screened = 2
    /\ Len(tested) = 2

\* C8: on exhaustion the search returns (no exception) the empty candidate, time 0,
\* score 0 and the number of draws consumed, which is maxDraws; an accepted
\* outcome holds a candidate.
C8_ExhaustionOutcome ==
    /\ pc = "exhausted" =>
          /\ result.candidate = <<>>
          /\ result.total_time = 0
          /\ result.final_score = RInt(0)
          /\ result.total_candidates_screened = draw
          /\ result.total_candidates_screened = max_candidates
          /\ result.total_candidates_screened = Len(tested)
          /\ error = ""
    /\ pc = "accepted" => result.candidate # <<>>

C8_Witness ==
    /\ pc = "exhausted"
    /\ max_candidates = 1
    /\ result.total_candidates_screened = 1
    /\ result.candidate = <<>>

StepsValid ==
    /\ pipeline # <<>>
    /\ \A j \in 1..Len(pipeline) : pipeline[j].interviewers # <<>>

\* C9 as claimed: construction rejects a pipeline with zero steps or with a step
\* without evaluators, so no such pipeline is ever run.
C9_OnlyValidPipelinesRun == InPipelineRun => StepsValid

KnownPolicy == elimination_type \in {"immediate", "aggregate"}

\* C10: a pipeline run under an unknown policy name raises a configuration error
\* before any step: no step is conducted, no time is accumulated, no result is
\* produced and no outcome is returned.
C10_UnknownPolicyRaisesBeforeAnyStep ==
    /\ InPipelineRun => KnownPolicy
    /\ (pc \notin {"construct", "ready"} /\ error # "ValidationError" /\ ~KnownPolicy) =>
          /\ step_idx = 0
          /\ total_time = 0
          /\ scores = <<>>
          /\ tested = <<>>
          /\ pc # "accepted"
          /\ pc = "raised" => error = "ValueError"
          /\ pc = "pipeline_call" => ENABLED PipelineCall
          /\ total_candidates_screened >= 1 => pc \in {"pipeline_call", "raised"}

C10_Witness ==
    /\ pc = "raised"
    /\ elimination_type = "cumulative"
    /\ error = "ValueError"
    /\ StepsValid

Stopped == pc \in {"accepted", "exhausted", "raised"}
RunValid == StepsValid /\ KnownPolicy

GeneratorServes ==
    \/ pc # "generate"
    \/ /\ candidate # <<>>
       /\ within_tolerance(candidate[1].skill_score_perceived, estimated_target_score)

GridSkills == {1, 50, 100}
GridStds == {0, 10, 40}
GridBiases == {-150, 0, 150}
GridLengths == {0, 25, 100, 150, 300}
GridZs == {-3, -1, 0, 2}

EstimateGridInRange ==
    \A skill_score \in GridSkills, error_std \in GridStds, error_bias \in GridBiases,
       interview_length \in GridLengths, z \in GridZs :
        estimate_skill_level(skill_score, error_std, error_bias, interview_length, z)
            \in 1..100

InScoreRange(x) == RLe[RInt(1), x] /\ RLe[x, RInt(100)]

\* C11: estimate_skill_level returns an integer in [1, 100] for every true value,
\* noise scale >= 0, bias, duration and noise sample; so the perceived skill cached
\* in a candidate, the candidate's estimate of the target, every minimum, maximum,
\* mean and median of a conducted step and every final score of a pipeline with
\* at least one step and evaluators in every step lie in [1, 100].
C11_EstimatesAndScoresInRange ==
    /\ EstimateGridInRange
    /\ candidate # <<>> =>
          /\ candidate[1].skill_score_perceived \in 1..100
          /\ estimated_target_score \in 1..100
    /\ \A j \in 1..Len(scores) :
          /\ scores[j].min \in 1..100
          /\ scores[j].max \in 1..100
          /\ scores[j].min <= scores[j].max
          /\ InScoreRange(scores[j].avg)
          /\ InScoreRange(scores[j].median)
    /\ (JustTested /\ StepsValid) => InScoreRange(final_score)
    /\ (pc = "accepted" /\ StepsValid) => InScoreRange(result.final_score)

\* a screened candidate of true skill 3 was scored 1 in its first step (the
\* estimate before the cut being 3 - 2 * 5 / 0.5 = -17) and has gone through the
\* accept test of a pipeline with evaluators in every step
C11_Witness ==
    /\ JustTested
    /\ StepsValid
    /\ candidate[1].params.skill_score_true = 3
    /\ scores # <<>>
    /\ scores[1].min = 1
    /\ final_score = RInt(1)

\* ------------------------------------------------------------------- C12
RequestedDurations == {10, 24, 25, 100, 200, 201, 300}
Clamped(duration) == Max(MIN_INTERVIEW_LENGTH, Min(MAX_INTERVIEW_LENGTH, duration))
ConstructionRejected == pc = "raised" /\ error = "ValidationError"

\* C12 as claimed: creating an interview step with a duration below the minimum
\* or above the maximum interview length succeeds and yields a step whose
\* duration is clamped into the range; no creation is rejected.
C12_OutOfRangeDurationClamped ==
    pc # "construct" =>
        /\ ~ConstructionRejected
        /\ \A j \in 1..Len(pipeline) :
              pipeline[j].duration = Clamped(pipeline[j].duration)

\* C12 amended: a step is created only with a duration within the minimum and
\* maximum interview length, and then keeps the duration as given; a duration
\* out of the range is rejected with a validation error, no step and no pipeline
\* being created and no search run.  Only estimate_skill_level clamps the
\* length it is given.
C12_OutOfRangeDurationRejected ==
    /\ \A duration \in RequestedDurations :
          create_interview_step(duration, <<EA>>)
              = IF duration = Clamped(duration)
                THEN [duration |-> duration, interviewers |-> <<EA>>]
                ELSE ValidationError
    /\ \A j \in 1..Len(pipeline) :
          /\ ~is_raised(pipeline[j])
          /\ pipeline[j].duration = Clamped(pipeline[j].duration)
    /\ ConstructionRejected =>
          /\ pipeline = <<>>
          /\ draw = 0
          /\ scores = <<>>
          /\ tested = <<>>
          /\ ~ENABLED Next
    /\ \A duration \in RequestedDurations, z \in ZSamples :
          estimate_skill_level(50, 10, 5, duration, z)
              = estimate_skill_level(50, 10, 5, Clamped(duration), z)

C12_Witness ==
    /\ ConstructionRejected
    /\ pipeline = <<>>
    /\ is_raised(create_interview_step(10, <<EA>>))
    /\ is_raised(create_interview_step(300, <<EB>>))

\* ------------------------------------------------------------------- C13
Eliminated(k) == elimination_function(elimination_type, SubSeq(scores, 1, k), target_score)

\* C13: under either policy a candidate whose pipeline run was eliminated, at
\* the last step included, is not accepted; every accepted candidate was
\* conducted through all steps of the pipeline with the policy never signalling
\* elimination, and the elapsed time returned with it is the sum of the
\* durations of all steps of the pipeline.
C13_EliminatedNeverAccepted ==
    /\ (JustTested /\ exit = "eliminated") =>
          /\ ~tested[Len(tested)]
          /\ pc # "accepted"
          /\ Eliminated(Len(scores))
    /\ pc = "accepted" =>
          /\ KnownPolicy
          /\ exit = "completed"
          /\ Len(scores) = Len(pipeline)
          /\ \A k \in 1..Len(scores) : ~Eliminated(k)
          /\ result.candidate = candidate
          /\ result.total_time = DurationOfFirst(Len(pipeline))
          /\ result.total_time = total_time

\* a candidate eliminated at the last of three steps was turned down and the
\* next one accepted after all three steps, 0.25 + 0.5 + 1.5 hours
C13_Witness ==
    /\ pc = "accepted"
    /\ elimination_type = "aggregate"
    /\ Len(pipeline) = 3
    /\ Len(scores) = 3
    /\ result.total_time = 225
    /\ tested = <<FALSE, TRUE>>

\* ------------------------------------------------------------------- C14
WithinFifteenPercent(perceived, estimated_target) ==
    /\ 85 * estimated_target <= 100 * perceived
    /\ 100 * perceived <= 115 * estimated_target

\* the estimates an entity can make of the target score
OwnEstimatesOfTarget(cand) ==
    {estimate_skill_level(target_score, cand.params.eval_error_std,
                          cand.params.eval_bias, DEFAULT_SELF_ASSESSMENT_TIME, z) :
        z \in ZFor(cand.params.eval_error_std)}

HeldEntityPasses ==
    /\ candidate # <<>>
    /\ candidate[1] \in {Engineer(params, z) : params \in Population, z \in ZSamples}
    /\ estimated_target_score \in OwnEstimatesOfTarget(candidate[1])
    /\ WithinFifteenPercent(candidate[1].skill_score_perceived, estimated_target_score)

BeingScreened == pc \in {"pipeline_call", "pipeline", "decide"}

\* C14: the search does not interview every entity the generator constructs.
\* A screened candidate is a constructed entity whose perceived skill lies
\* within 15% of its own estimate of the target score; an entity failing this
\* test is dropped by the generator without a pipeline run and without a change
\* of the number of candidates screened or of the draws made, so the entities
\* constructed can outnumber the candidates screened and the maximum of draws.
C14_OnlySelfSelectedEntitiesScreened ==
    /\ [](BeingScreened => (HeldEntityPasses /\ discarded = 0))
    /\ [](Len(tested) <= total_candidates_screened /\ total_candidates_screened <= draw)
    /\ [](discarded > 0 =>
            /\ pc = "generate"
            /\ candidate # <<>>
            /\ ~WithinFifteenPercent(candidate[1].skill_score_perceived,
                                     estimated_target_score))
    /\ [][pc = "generate" =>
            IF WithinFifteenPercent(candidate'[1].skill_score_perceived,
                                    estimated_target_score')
            THEN /\ pc' = "pipeline_call"
                 /\ total_candidates_screened' = total_candidates_screened + 1
                 /\ discarded' = 0
            ELSE /\ pc' = "generate"
                 /\ discarded' = Min(discarded + 1, MaxDiscarded)
                 /\ UNCHANGED <<config, draw, total_candidates_screened, step_idx,
                                total_time, scores, exit, final_score, result,
                                error, tested>>]_vars

\* with one draw allowed and no candidate screened yet, the generator has
\* dropped two entities and holds the second
C14_Witness ==
    /\ pc = "generate"
    /\ max_candidates = 1
    /\ total_candidates_screened = 0
    /\ discarded = 2
    /\ discarded > max_candidates
    /\ tested = <<>>
    /\ scores = <<>>

====
